---- MODULE Spec2Model ----
(***************************************************************************)
(* js-smp-peer: the SMPPeer orchestrator (src/src/smpPeer.ts) over a       *)
(* PeerJS-like transport.  Two orchestrators "A" and "B" register with the *)
(* peer server, register event callbacks, and run SMP sessions with each   *)
(* other.  The transport (Peer / DataConnection) is the environment: it    *)
(* raises 'open', 'disconnected', 'error', connection 'open' and 'data'    *)
(* events one at a time, as the single-threaded event loop delivers them.  *)
(* Time is the event loop's timer clock: it jumps to the next pending      *)
(* setTimeout deadline once nothing is due at the current instant.         *)
(***************************************************************************)
EXTENDS Integers, Sequences, FiniteSets, TLC

(***************************************************************************)
(* Bounds of the model.                                                    *)
(***************************************************************************)
\* number of runSMP calls that get past the ServerUnconnected guard
MaxSessions == 1
\* number of on() calls over all orchestrators
MaxOnCalls == 1
\* number of recorded invocations of one orchestrator's server-disconnected callback
MaxDisconnects == 1
\* number of recorded invocations of one orchestrator's error callback
MaxErrors == 1
\* the timer clock stops advancing here
MaxTime == 20
\* on() calls, and recorded invocations of one callback, where only
\* registration and the event registry are explored (RegSpec)
MaxRegOnCalls == 2
MaxRegEvents == 2
\* runSMP calls where sessions run concurrently (ConcSpec)
MaxConcSessions == 2
\* runSMP calls where a session is followed to its end (SessSpec)
MaxSoloSessions == 1

(***************************************************************************)
(* Program constants.                                                      *)
(***************************************************************************)
timeSleep == 10

(***************************************************************************)
(* Inputs.                                                                 *)
(***************************************************************************)
Peers == {"A", "B"}
Secrets == {"1", "2"}
Undefined == "undefined"
\* the identities runSMP is called with; "C" is registered by nobody
RemoteIds == {"A", "B", "C"}
\* the `timeout` constructor argument, in ms
Timeouts == {15}
\* the event names on() is called with; "bogus" is not a recognized one
EventNames == {"connected", "disconnected", "error", "incoming", "bogus"}

eventServerConnected == "connected"
eventServerDisconnected == "disconnected"
eventError == "error"
eventIncomingSMP == "incoming"

NoCb == 0
NoTimer == -1
NoPeer == "none"

VARIABLES
    secret,        \* this.secret
    localPeerID,   \* this.localPeerID (Undefined when omitted)
    timeout,       \* this.timeout
    cb,            \* cbServerConnected, cbServerDisconnected, cbError, cbIncomingSMP
    peer,          \* this.peer !== undefined
    connectState,  \* the promise returned by connectToPeerServer
    tr,            \* the Peer object created by connectToPeerServer
    calls,         \* invocations of the registered callbacks, per orchestrator
    nOn,           \* on() calls made so far
    lastOn,        \* the last on() call: its event name, and what it threw
    regs,          \* the on() calls that registered a callback, in call order
    discReq,       \* a disconnect() that found a callback registered: "owed"
                   \* until the callback runs, "served" after ("no": none made)
    sess,          \* the sessions started by runSMP, in call order
    now            \* the timer clock, in ms

vars == <<secret, localPeerID, timeout, cb, peer, connectState, tr, calls,
          nOn, lastOn, regs, discReq, sess, now>>

ctor == <<secret, localPeerID, timeout>>

(***************************************************************************)
(* exceptions module: the error classes it exports.  A class imported from *)
(* it that it does not export is undefined at run time, and `new` of       *)
(* undefined throws a TypeError.                                           *)
(***************************************************************************)
ExceptionsExports ==
    {"SMPPeerError", "ServerUnconnected", "ServerFault", "TimeoutError"}

\* `new X(...)` for a class X that smpPeer.ts imports from the exceptions
\* module: EventUnsupported is imported and is not among the exports
NewError(kind) ==
    IF kind \in ExceptionsExports
    THEN kind
    ELSE "TypeError"

\* what a call does synchronously: it throws an error, or it goes on
Proceeds == "proceeds"

(***************************************************************************)
(* A promise settles once: resolve or reject after that changes nothing.   *)
(***************************************************************************)
Settle(promise, outcome) == IF promise = "pending" THEN outcome ELSE promise

(***************************************************************************)
(* Transport: the Peer object.  key is the identity the peer server knows  *)
(* the peer under (the requested one, or a server-chosen one), id is the   *)
(* identity the 'open' event confirms.                                     *)
(***************************************************************************)
NoTransport ==
    [created |-> FALSE, open |-> FALSE, key |-> NoPeer, id |-> NoPeer,
     discPending |-> FALSE]

\* MockPeer constructor: the requested identity, or a random one
AssignedKey(p) ==
    IF localPeerID[p] = Undefined THEN "R" \o p ELSE localPeerID[p]

\* MockPeerWrongID: `this.id = id + '123'` on the constructor's argument,
\* which is the string "undefined" when no identity was requested
WrongID(id) == id \o "123"

\* the identities the peer server may confirm in 'open'; it is A's registration
\* that meets a faulty server
ConfirmedIds(p) ==
    IF p = "A" THEN {tr[p].key, WrongID(localPeerID[p])} ELSE {tr[p].key}

(***************************************************************************)
(* SMPPeer.id                                                              *)
(***************************************************************************)
\* mutant: the identity is given out only while no disconnect is under way
get_id_whileConnected(p) ==
    IF ~peer[p] \/ tr[p].discPending
    THEN [ok |-> FALSE, val |-> NewError("ServerUnconnected")]
    ELSE [ok |-> TRUE, val |-> tr[p].id]

get_id(p) ==
    IF ~peer[p]
    THEN [ok |-> FALSE, val |-> NewError("ServerUnconnected")]
    ELSE [ok |-> TRUE, val |-> tr[p].id]

(***************************************************************************)
(* Invoking a callback slot: nothing happens when it is undefined.         *)
(***************************************************************************)
Invoke(p, kind, args) ==
    IF cb[p][kind] # NoCb
    THEN [calls EXCEPT ![p][kind] = Append(@, [cb |-> cb[p][kind], args |-> args])]
    ELSE calls

NoArgs == <<>>

(***************************************************************************)
(* SMPPeer.on                                                              *)
(***************************************************************************)
\* what on(event, cb) throws
onThrows(event) ==
    IF event \in {eventServerConnected, eventServerDisconnected,
                  eventIncomingSMP, eventError}
    THEN Proceeds
    ELSE NewError("EventUnsupported")

\* the registry after on(event, c)
onRegistry(p, event, c) ==
    IF event = eventServerConnected THEN [cb EXCEPT ![p].connected = c]
    ELSE IF event = eventServerDisconnected THEN [cb EXCEPT ![p].disconnected = c]
    ELSE IF event = eventIncomingSMP THEN [cb EXCEPT ![p].incoming = c]
    ELSE IF event = eventError THEN [cb EXCEPT ![p].error = c]
    ELSE cb

\* each call passes a new closure: the nOn+1-th callback
On(p, event) ==
    /\ cb' = onRegistry(p, event, nOn + 1)
    /\ nOn' = nOn + 1
    /\ lastOn' = [event |-> event, threw |-> onThrows(event)]
    /\ regs' = IF onThrows(event) = Proceeds
               THEN Append(regs, [p |-> p, event |-> event, c |-> nOn + 1])
               ELSE regs
    /\ UNCHANGED <<ctor, peer, connectState, tr, calls, discReq, sess, now>>

(***************************************************************************)
(* SMPPeer.connectToPeerServer                                             *)
(***************************************************************************)
\* new Peer(this.localPeerID, ...), the handlers installed, the promise pending
ConnectToPeerServer(p) ==
    /\ connectState[p] = "none"
    /\ tr' = [tr EXCEPT ![p].created = TRUE, ![p].key = AssignedKey(p)]
    /\ connectState' = [connectState EXCEPT ![p] = "pending"]
    /\ UNCHANGED <<ctor, cb, peer, calls, nOn, lastOn, regs, discReq, sess, now>>

\* mutant: resolve(id) is called before the identity is checked
openSettles_resolveFirst(p, id) ==
    LET afterResolve == Settle(connectState[p], "resolved")
    IN  IF localPeerID[p] # Undefined /\ id # localPeerID[p]
        THEN Settle(afterResolve, NewError("ServerFault"))
        ELSE afterResolve

\* mutant: the confirmed identity is compared also when none was requested
openSettles_alwaysCompares(p, id) ==
    LET afterCheck ==
            IF id # localPeerID[p]
            THEN Settle(connectState[p], NewError("ServerFault"))
            ELSE connectState[p]
    IN  Settle(afterCheck, "resolved")

\* the 'open' handler's reject(...) and resolve(id), in the order it makes them
openSettles(p, id) ==
    LET afterCheck ==
            IF localPeerID[p] # Undefined /\ id # localPeerID[p]
            THEN Settle(connectState[p], NewError("ServerFault"))
            ELSE connectState[p]
    IN  Settle(afterCheck, "resolved")

\* mutant: the 'open' handler does not store the Peer object
openSetsPeer_never(p, id) == FALSE

\* the 'open' handler's `this.peer = localPeer`: it follows reject(...) and
\* resolve(id) with no return between them, so it is made whatever the comparison found
openSetsPeer(p, id) == TRUE

\* the peer server confirms identity id: localPeer's 'open' handler runs
PeerOpen(p, id) ==
    /\ tr[p].created
    /\ ~tr[p].open
    /\ id \in ConfirmedIds(p)
    /\ tr' = [tr EXCEPT ![p].open = TRUE, ![p].id = id]
    /\ connectState' = [connectState EXCEPT ![p] = openSettles(p, id)]
    /\ peer' = [peer EXCEPT ![p] = openSetsPeer(p, id)]
    /\ calls' = Invoke(p, "connected", NoArgs)
    /\ UNCHANGED <<ctor, cb, nOn, lastOn, regs, discReq, sess, now>>

\* mutant: the 'disconnected' handler does not call the callback
onPeerDisconnected_noop(p) == calls

\* localPeer's 'disconnected' handler
onPeerDisconnected(p) == Invoke(p, "disconnected", NoArgs)

\* mutant: the error callback is called without the error
onPeerError_noArgs(p) == Invoke(p, "error", NoArgs)

\* localPeer's 'error' handler
onPeerError(p) == Invoke(p, "error", <<"ERROR!">>)

\* a request is served once the callback has run
Served(p, calls2) ==
    IF discReq[p] = "owed" /\ calls2[p].disconnected # calls[p].disconnected
    THEN [discReq EXCEPT ![p] = "served"]
    ELSE discReq

\* disconnect() found a callback registered: it is owed an invocation
Requested(p, calls2) ==
    IF cb[p].disconnected = NoCb THEN discReq
    ELSE IF calls2[p].disconnected # calls[p].disconnected
    THEN [discReq EXCEPT ![p] = "served"]
    ELSE [discReq EXCEPT ![p] = "owed"]

\* the transport raises 'disconnected' on its own, while it is registering
\* (the link to the server is lost)
TransportDisconnected(p) ==
    /\ tr[p].created
    /\ ~tr[p].open
    /\ calls' = onPeerDisconnected(p)
    /\ discReq' = Served(p, calls')
    /\ UNCHANGED <<ctor, cb, peer, connectState, tr, nOn, lastOn, regs, sess, now>>

\* the transport raises 'error' while it is registering, as
\* MockPeerErrorWhenRegiser does
TransportError(p) ==
    /\ tr[p].created
    /\ ~tr[p].open
    /\ calls' = onPeerError(p)
    /\ UNCHANGED <<ctor, cb, peer, connectState, tr, nOn, lastOn, regs, discReq, sess, now>>

(***************************************************************************)
(* SMPPeer.disconnect                                                      *)
(***************************************************************************)
\* what disconnect() throws
disconnectThrows(p) ==
    IF ~peer[p] THEN NewError("ServerUnconnected") ELSE Proceeds

\* disconnect(): this.peer.disconnect() raises 'disconnected' inside the call
\* (sync, as MockPeer.disconnect does) or on a later turn of the event loop
Disconnect(p, sync) ==
    /\ IF disconnectThrows(p) # Proceeds
       THEN UNCHANGED <<tr, calls, discReq>>
       ELSE /\ ~tr[p].discPending
            /\ tr' = [tr EXCEPT ![p].discPending = ~sync]
            /\ calls' = IF sync THEN onPeerDisconnected(p) ELSE calls
            /\ discReq' = Requested(p, calls')
    /\ UNCHANGED <<ctor, cb, peer, connectState, nOn, lastOn, regs, sess, now>>

\* the 'disconnected' notification a disconnect() asked for is raised
DisconnectedRaised(p) ==
    /\ tr[p].discPending
    /\ tr' = [tr EXCEPT ![p].discPending = FALSE]
    /\ calls' = onPeerDisconnected(p)
    /\ discReq' = Served(p, calls')
    /\ UNCHANGED <<ctor, cb, peer, connectState, nOn, lastOn, regs, sess, now>>

(***************************************************************************)
(* js-smp's SMPStateMachine, as the orchestrator uses it: transit,         *)
(* isFinished, getResult.  The initiator goes state 1 -> 2 -> 4 ->         *)
(* finished, the responder 1 -> 3 -> finished.  Messages 2 and 3 carry the *)
(* sender's blinded secret; each side compares it with its own.            *)
(***************************************************************************)
Null == [type |-> 0, sec |-> ""]
Msg(type, sec) == [type |-> type, sec |-> sec]

NewSMPStateMachine(x) ==
    [state |-> "1", x |-> x, y |-> "", finished |-> FALSE, result |-> FALSE]

\* no engine yet: the responder's before its connection opens
NoStateMachine ==
    [state |-> "0", x |-> "", y |-> "", finished |-> FALSE, result |-> FALSE]

\* transit(msg): the state machine after it, and its reply (Null for none);
\* a message the state does not expect throws and changes nothing
transit(sm, msg) ==
    IF sm.state = "1" /\ msg = Null
    THEN [sm |-> [sm EXCEPT !.state = "2"], reply |-> Msg(1, ""), threw |-> FALSE]
    ELSE IF sm.state = "1" /\ msg.type = 1
    THEN [sm |-> [sm EXCEPT !.state = "3"], reply |-> Msg(2, sm.x), threw |-> FALSE]
    ELSE IF sm.state = "2" /\ msg.type = 2
    THEN [sm |-> [sm EXCEPT !.state = "4", !.y = msg.sec],
          reply |-> Msg(3, sm.x), threw |-> FALSE]
    ELSE IF sm.state = "3" /\ msg.type = 3
    THEN [sm |-> [sm EXCEPT !.state = "finished", !.y = msg.sec,
                            !.finished = TRUE, !.result = (msg.sec = sm.x)],
          reply |-> Msg(4, ""), threw |-> FALSE]
    ELSE IF sm.state = "4" /\ msg.type = 4
    THEN [sm |-> [sm EXCEPT !.state = "finished", !.finished = TRUE,
                            !.result = (sm.y = sm.x)],
          reply |-> Null, threw |-> FALSE]
    ELSE [sm |-> sm, reply |-> Null, threw |-> TRUE]

isFinished(sm) == sm.finished
getResult(sm) == sm.result

(***************************************************************************)
(* js-smp's TLV codec: a frame is the message's fields in wire order.      *)
(***************************************************************************)
serialize(msg) == <<msg.type, msg.sec>>
deserialize(data) == [type |-> data[1], sec |-> data[2]]

(***************************************************************************)
(* createConnDataHandler: the state machine after one inbound frame, and   *)
(* the frames the handler sends on the same connection.                    *)
(***************************************************************************)
\* mutant: a reply is sent twice
createConnDataHandler_sendsTwice(stateMachine, data) ==
    LET tlv == deserialize(data)
        t == transit(stateMachine, tlv)
    IN  [sm |-> t.sm,
         sent |-> IF t.reply = Null THEN <<>>
                  ELSE <<serialize(t.reply), serialize(t.reply)>>]

createConnDataHandler(stateMachine, data) ==
    LET tlv == deserialize(data)
        t == transit(stateMachine, tlv)
    IN  [sm |-> t.sm,
         sent |-> IF t.reply = Null THEN <<>> ELSE <<serialize(t.reply)>>]

(***************************************************************************)
(* waitUntilStateMachineFinishedOrTimeout: a timer racing a poll loop.     *)
(* timer and poll are the deadlines of the pending setTimeout calls.       *)
(***************************************************************************)
NoWaiter == [timer |-> NoTimer, poll |-> NoTimer, settled |-> "none"]

\* mutant: the timer is set to twice the timeout
timerDeadline_double(t, tmo) == t + 2 * tmo

\* setTimeout(..., timeout) made at time t
timerDeadline(t, tmo) == t + tmo

\* sleep(timeSleep) made at time t
pollDeadline(t) == t + timeSleep

\* the race is entered at time t: the timer is set, the loop makes its first test
waitStart(sm, t, tmo) ==
    IF isFinished(sm)
    THEN [timer |-> NoTimer, poll |-> NoTimer, settled |-> "finished"]
    ELSE [timer |-> timerDeadline(t, tmo), poll |-> pollDeadline(t),
          settled |-> "pending"]

\* the poll loop wakes at time t and tests isFinished again; when the loop
\* ends the race resolves and clearTimeout runs, unless the timer already won
waitPoll(w, sm, t) ==
    IF isFinished(sm)
    THEN IF w.settled = "pending"
         THEN [timer |-> NoTimer, poll |-> NoTimer, settled |-> "finished"]
         ELSE [w EXCEPT !.poll = NoTimer]
    ELSE [w EXCEPT !.poll = pollDeadline(t)]

\* mutant: the timer callback does not reject
waitTimer_noReject(w) == [w EXCEPT !.timer = NoTimer]

\* the timer fires: reject(new TimeoutError(...))
waitTimer(w) ==
    [w EXCEPT !.timer = NoTimer, !.settled = Settle(w.settled, "timeout")]

\* this step settled the race
JustSettled(w, w2, how) == w.settled \in {"none", "pending"} /\ w2.settled = how

(***************************************************************************)
(* Sessions.  One record per runSMP call that got past the guard: the      *)
(* initiator's side (i...) and, once the remote peer is found, the         *)
(* responder's side (r...), with the frames in flight each way (toR, toI)  *)
(* and the frames each side has sent so far (iSent, rSent).                *)
(***************************************************************************)
BoolStr(b) == IF b THEN "true" ELSE "false"

Sids == 1..Len(sess)

\* mutant: the lookup ignores the identity asked for
Discovered_anyPeer(remotePeerID) ==
    {q \in Peers : tr[q].created}

\* MockPeer.connect: the peer the directory holds under remotePeerID; the
\* constructor enters it, and connectToPeerServer registers its 'connection'
\* handler, before 'open' is raised
Discovered(remotePeerID) ==
    {q \in Peers : tr[q].created /\ tr[q].key = remotePeerID}

(***************************************************************************)
(* SMPPeer.runSMP                                                          *)
(***************************************************************************)
\* what runSMP(remotePeerID) throws before it connects
runSMPThrows(p) ==
    IF ~peer[p] THEN NewError("ServerUnconnected") ELSE Proceeds

\* mutant: the inbound 'open' handler sends the engine's first message too
inboundOpen_sendsFirst(s) ==
    LET t == transit(NewSMPStateMachine(secret[s.rsp]), Null)
    IN  [s EXCEPT !.rOpen = TRUE, !.rEng = t.sm, !.rData = TRUE,
                  !.rW = waitStart(t.sm, now, timeout[s.rsp]),
                  !.toI = Append(@, serialize(t.reply)),
                  !.rSent = Append(@, serialize(t.reply))]

\* what the inbound connection's 'open' handler does to the session
inboundOpen(s) ==
    LET stateMachine == NewSMPStateMachine(secret[s.rsp])
    IN  [s EXCEPT !.rOpen = TRUE, !.rEng = stateMachine, !.rData = TRUE,
                  !.rW = waitStart(stateMachine, now, timeout[s.rsp])]

\* this.peer.connect(remotePeerID): it throws when the peer is not discovered;
\* else the remote peer's 'connection' handler runs, and the inbound
\* connection's 'open' handler with it (MockDataConnection.on calls it at once)
connect(s) ==
    LET found == Discovered(s.remote)
    IN  IF found = {}
        THEN [s EXCEPT !.out = "Error"]
        ELSE inboundOpen([s EXCEPT !.rsp = CHOOSE q \in found : TRUE])

\* the session before runSMP connects
NewSession(p, remotePeerID) ==
    [ini |-> p, remote |-> remotePeerID, rsp |-> NoPeer,
     iEng |-> NoStateMachine, rEng |-> NoStateMachine,
     iOpen |-> FALSE, rOpen |-> FALSE, iOpenAt |-> NoTimer,
     iData |-> FALSE, rData |-> FALSE,
     toR |-> <<>>, toI |-> <<>>,
     iRecv |-> 0, rRecv |-> 0,
     iSent |-> <<>>, rSent |-> <<>>,
     iW |-> NoWaiter, rW |-> NoWaiter,
     out |-> "pending"]

\* mutant: the first message is sent without installing the data handler
runSMPOpen_noHandler(s) ==
    LET t == transit(s.iEng, Null)
    IN  IF t.reply = Null
        THEN [s EXCEPT !.iOpen = TRUE, !.iOpenAt = now, !.iEng = t.sm]
        ELSE [s EXCEPT !.iOpen = TRUE, !.iOpenAt = now, !.iEng = t.sm,
                       !.toR = Append(@, serialize(t.reply)),
                       !.iSent = Append(@, serialize(t.reply))]

\* what the initiator's 'open' handler does to the session
runSMPOpen(s) ==
    LET t == transit(s.iEng, Null)
    IN  IF t.reply = Null
        THEN [s EXCEPT !.iOpen = TRUE, !.iOpenAt = now, !.iEng = t.sm]
        ELSE [s EXCEPT !.iOpen = TRUE, !.iOpenAt = now, !.iEng = t.sm,
                       !.iData = TRUE,
                       !.toR = Append(@, serialize(t.reply)),
                       !.iSent = Append(@, serialize(t.reply))]

\* the outbound connection is ready: the initiator's 'open' handler runs
InitiatorOpen(i) ==
    /\ i \in Sids
    /\ sess[i].rsp # NoPeer
    /\ ~sess[i].iOpen
    /\ sess' = [sess EXCEPT ![i] = runSMPOpen(sess[i])]
    /\ UNCHANGED <<ctor, cb, peer, connectState, tr, calls, nOn, lastOn, regs, discReq, now>>

\* mutant: the orchestrator keeps one engine for all its inbound connections
responderData_sharedEngine(s) ==
    LET same == {k \in Sids : sess[k].rsp = s.rsp}
        first == CHOOSE k \in same : \A l \in same : k <= l
        shared == IF same = {} THEN s.rEng ELSE sess[first].rEng
        h == createConnDataHandler(shared, Head(s.toR))
    IN  [s EXCEPT !.toR = Tail(@), !.rEng = h.sm, !.rRecv = @ + 1,
                  !.toI = @ \o h.sent, !.rSent = @ \o h.sent]

\* a frame reaches the responder's end: its 'data' handler runs
responderData(s) ==
    LET h == createConnDataHandler(s.rEng, Head(s.toR))
    IN  IF s.rData
        THEN [s EXCEPT !.toR = Tail(@), !.rEng = h.sm, !.rRecv = @ + 1,
                       !.toI = @ \o h.sent, !.rSent = @ \o h.sent]
        ELSE [s EXCEPT !.toR = Tail(@)]

DeliverToResponder(i) ==
    /\ i \in Sids
    /\ sess[i].rOpen
    /\ sess[i].toR # <<>>
    /\ sess' = [sess EXCEPT ![i] = responderData(sess[i])]
    /\ UNCHANGED <<ctor, cb, peer, connectState, tr, calls, nOn, lastOn, regs, discReq, now>>

\* a frame reaches the initiator's end: its 'data' handler runs
initiatorData(s) ==
    LET h == createConnDataHandler(s.iEng, Head(s.toI))
    IN  IF s.iData
        THEN [s EXCEPT !.toI = Tail(@), !.iEng = h.sm, !.iRecv = @ + 1,
                       !.toR = @ \o h.sent, !.iSent = @ \o h.sent]
        ELSE [s EXCEPT !.toI = Tail(@)]

DeliverToInitiator(i) ==
    /\ i \in Sids
    /\ sess[i].iOpen
    /\ sess[i].toI # <<>>
    /\ sess' = [sess EXCEPT ![i] = initiatorData(sess[i])]
    /\ UNCHANGED <<ctor, cb, peer, connectState, tr, calls, nOn, lastOn, regs, discReq, now>>

(***************************************************************************)
(* The race settles: what runSMP returns, what the inbound handler does.   *)
(***************************************************************************)
\* mutant: runSMP returns isFinished() instead of getResult()
runSMPReturns_finished(s, w2) ==
    IF JustSettled(s.iW, w2, "finished")
    THEN Settle(s.out, BoolStr(isFinished(s.iEng)))
    ELSE IF JustSettled(s.iW, w2, "timeout")
    THEN Settle(s.out, NewError("TimeoutError"))
    ELSE s.out

\* runSMP after `await waitUntilStateMachineFinishedOrTimeout(...)`
runSMPReturns(s, w2) ==
    IF JustSettled(s.iW, w2, "finished")
    THEN Settle(s.out, BoolStr(getResult(s.iEng)))
    ELSE IF JustSettled(s.iW, w2, "timeout")
    THEN Settle(s.out, NewError("TimeoutError"))
    ELSE s.out

\* MockDataConnection.send calls the remote end's 'data' handler inside the
\* call, and the handler's own send does the same: the frames of the
\* exchange are handled depth first until a handler sends nothing
RECURSIVE sendSync(_)
sendSync(s) ==
    IF s.toR # <<>> THEN sendSync(responderData(s))
    ELSE IF s.toI # <<>> THEN sendSync(initiatorData(s))
    ELSE s

\* the session runSMP starts: connect, the state machine, conn.on('open', ...),
\* the race entered.  A transport that is ready at once (sync, as
\* MockDataConnection.on('open') is) runs the 'open' handler, and with it the
\* exchange, inside conn.on, before the race is entered; another one raises
\* 'open' on a later turn of the event loop
runSMPSession(p, remotePeerID, sync) ==
    LET c == connect(NewSession(p, remotePeerID))
        stateMachine == NewSMPStateMachine(secret[p])
        made == [c EXCEPT !.iEng = stateMachine]
        opened == IF sync THEN sendSync(runSMPOpen(made)) ELSE made
        w == waitStart(opened.iEng, now, timeout[p])
    IN  IF c.out # "pending"
        THEN c
        ELSE [opened EXCEPT !.iW = w, !.out = runSMPReturns(opened, w)]

RunSMP(p, remotePeerID, sync) ==
    /\ IF runSMPThrows(p) # Proceeds
       THEN UNCHANGED sess
       ELSE sess' = Append(sess, runSMPSession(p, remotePeerID, sync))
    /\ UNCHANGED <<ctor, cb, peer, connectState, tr, calls, nOn, lastOn, regs, discReq, now>>

\* mutant: the result is reported on the orchestrator that started the session
inboundFinished_onInitiator(i, s, w2) ==
    IF JustSettled(s.rW, w2, "finished")
    THEN Invoke(s.ini, "incoming", <<i, tr[s.ini].id, getResult(s.rEng)>>)
    ELSE calls

\* mutant: the catch branch reports the failure to the error callback
inboundFinished_reportsError(i, s, w2) ==
    IF JustSettled(s.rW, w2, "finished")
    THEN Invoke(s.rsp, "incoming", <<i, tr[s.ini].id, getResult(s.rEng)>>)
    ELSE IF JustSettled(s.rW, w2, "timeout")
    THEN Invoke(s.rsp, "error", <<NewError("TimeoutError")>>)
    ELSE calls

\* mutant: the catch branch does not return, the callback runs after a timeout too
inboundFinished_noReturn(i, s, w2) ==
    IF JustSettled(s.rW, w2, "finished") \/ JustSettled(s.rW, w2, "timeout")
    THEN Invoke(s.rsp, "incoming", <<i, tr[s.ini].id, getResult(s.rEng)>>)
    ELSE calls

\* mutant: the handler calls the callback that was bound first, not the one
\* the slot holds after the await
inboundFinished_firstBound(i, s, w2) ==
    LET ks == {k \in 1..Len(regs) :
                  regs[k].p = s.rsp /\ regs[k].event = eventIncomingSMP}
        first == regs[CHOOSE k \in ks : \A l \in ks : k <= l].c
    IN  IF JustSettled(s.rW, w2, "finished") /\ ks # {}
        THEN [calls EXCEPT ![s.rsp].incoming =
                  Append(@, [cb |-> first,
                             args |-> <<i, tr[s.ini].id, getResult(s.rEng)>>])]
        ELSE calls

\* the inbound handler after the await: the callback, unless the race failed
inboundFinished(i, s, w2) ==
    IF JustSettled(s.rW, w2, "finished")
    THEN Invoke(s.rsp, "incoming", <<i, tr[s.ini].id, getResult(s.rEng)>>)
    ELSE calls

\* the initiator's poll loop wakes
InitiatorPoll(i) ==
    /\ i \in Sids
    /\ sess[i].iW.poll = now
    /\ LET w2 == waitPoll(sess[i].iW, sess[i].iEng, now)
       IN  sess' = [sess EXCEPT ![i].iW = w2,
                                ![i].out = runSMPReturns(sess[i], w2)]
    /\ UNCHANGED <<ctor, cb, peer, connectState, tr, calls, nOn, lastOn, regs, discReq, now>>

\* the initiator's timer fires
InitiatorTimer(i) ==
    /\ i \in Sids
    /\ sess[i].iW.timer = now
    /\ LET w2 == waitTimer(sess[i].iW)
       IN  sess' = [sess EXCEPT ![i].iW = w2,
                                ![i].out = runSMPReturns(sess[i], w2)]
    /\ UNCHANGED <<ctor, cb, peer, connectState, tr, calls, nOn, lastOn, regs, discReq, now>>

\* the responder's poll loop wakes
ResponderPoll(i) ==
    /\ i \in Sids
    /\ sess[i].rW.poll = now
    /\ LET w2 == waitPoll(sess[i].rW, sess[i].rEng, now)
       IN  /\ sess' = [sess EXCEPT ![i].rW = w2]
           /\ calls' = inboundFinished(i, sess[i], w2)
    /\ UNCHANGED <<ctor, cb, peer, connectState, tr, nOn, lastOn, regs, discReq, now>>

\* the responder's timer fires
ResponderTimer(i) ==
    /\ i \in Sids
    /\ sess[i].rW.timer = now
    /\ LET w2 == waitTimer(sess[i].rW)
       IN  /\ sess' = [sess EXCEPT ![i].rW = w2]
           /\ calls' = inboundFinished(i, sess[i], w2)
    /\ UNCHANGED <<ctor, cb, peer, connectState, tr, nOn, lastOn, regs, discReq, now>>

(***************************************************************************)
(* The timer clock.                                                        *)
(***************************************************************************)
Deadlines ==
    UNION {{sess[i].iW.timer, sess[i].iW.poll, sess[i].rW.timer, sess[i].rW.poll}
           : i \in Sids} \ {NoTimer}

Min(S) == CHOOSE m \in S : \A n \in S : m <= n

\* nothing is due now: the clock moves to the next deadline
Tick ==
    /\ Deadlines # {}
    /\ \A d \in Deadlines : d > now
    /\ Min(Deadlines) <= MaxTime
    /\ now' = Min(Deadlines)
    /\ UNCHANGED <<ctor, cb, peer, connectState, tr, calls, nOn, lastOn, regs, discReq, sess>>

(***************************************************************************)
(* The specification.                                                      *)
(***************************************************************************)
NoCalls == [connected |-> <<>>, disconnected |-> <<>>, error |-> <<>>,
            incoming |-> <<>>]
NoCallbacks == [connected |-> NoCb, disconnected |-> NoCb, error |-> NoCb,
                incoming |-> NoCb]

\* new SMPPeer(secret, localPeerID?, config, timeout)
Init ==
    /\ secret \in {f \in [Peers -> Secrets] : f["A"] = "1"}
    /\ localPeerID \in {f \in [Peers -> Peers \cup {Undefined}] :
                          f["A"] \in {"A", Undefined} /\ f["B"] = "B"}
    /\ timeout \in [Peers -> Timeouts]
    /\ cb = [p \in Peers |-> NoCallbacks]
    /\ peer = [p \in Peers |-> FALSE]
    /\ connectState = [p \in Peers |-> "none"]
    /\ tr = [p \in Peers |-> NoTransport]
    /\ calls = [p \in Peers |-> NoCalls]
    /\ nOn = 0
    /\ lastOn = [event |-> "none", threw |-> Proceeds]
    /\ regs = <<>>
    /\ discReq = [p \in Peers |-> "no"]
    /\ sess = <<>>
    /\ now = 0

Next ==
    \/ \E p \in Peers, e \in EventNames : nOn < MaxOnCalls /\ On(p, e)
    \/ \E p \in Peers : ConnectToPeerServer(p)
    \/ \E p \in Peers : \E id \in ConfirmedIds(p) : PeerOpen(p, id)
    \/ \E p \in Peers :
           Len(calls[p].disconnected) < MaxDisconnects /\ TransportDisconnected(p)
    \/ \E p \in Peers : Len(calls[p].error) < MaxErrors /\ TransportError(p)
    \/ \E p \in Peers, sync \in BOOLEAN :
           Len(calls[p].disconnected) < MaxDisconnects /\ Disconnect(p, sync)
    \/ \E p \in Peers : DisconnectedRaised(p)
    \/ \E p \in Peers, r \in RemoteIds, sync \in BOOLEAN : Len(sess) < MaxSessions /\ RunSMP(p, r, sync)
    \/ \E i \in 1..MaxSessions : InitiatorOpen(i)
    \/ \E i \in 1..MaxSessions : DeliverToResponder(i)
    \/ \E i \in 1..MaxSessions : DeliverToInitiator(i)
    \/ \E i \in 1..MaxSessions : InitiatorPoll(i)
    \/ \E i \in 1..MaxSessions : InitiatorTimer(i)
    \/ \E i \in 1..MaxSessions : ResponderPoll(i)
    \/ \E i \in 1..MaxSessions : ResponderTimer(i)
    \/ Tick

Spec == Init /\ [][Next]_vars

\* registration, the event registry and disconnect(), with no session started
RegNext ==
    \/ \E p \in Peers, e \in EventNames : nOn < MaxRegOnCalls /\ On(p, e)
    \/ \E p \in Peers : ConnectToPeerServer(p)
    \/ \E p \in Peers : \E id \in ConfirmedIds(p) : PeerOpen(p, id)
    \/ \E p \in Peers :
           Len(calls[p].disconnected) < MaxRegEvents /\ TransportDisconnected(p)
    \/ \E p \in Peers : Len(calls[p].error) < MaxRegEvents /\ TransportError(p)
    \/ \E p \in Peers, sync \in BOOLEAN :
           Len(calls[p].disconnected) < MaxRegEvents /\ Disconnect(p, sync)
    \/ \E p \in Peers : DisconnectedRaised(p)

RegSpec == Init /\ [][RegNext]_vars

\* the event loop delivers every notification the transport has pending
FairRegSpec ==
    /\ RegSpec
    /\ \A p \in Peers : WF_vars(DisconnectedRaised(p))

\* both orchestrators registered under the identities they asked for, each
\* with an incoming-session callback and an error callback, as On,
\* ConnectToPeerServer and PeerOpen leave them
ConcInit ==
    /\ secret \in {f \in [Peers -> Secrets] : f["A"] = "1"}
    /\ localPeerID = [p \in Peers |-> p]
    /\ timeout \in [Peers -> Timeouts]
    /\ cb = [p \in Peers |->
               [NoCallbacks EXCEPT !.incoming = IF p = "A" THEN 1 ELSE 2,
                                   !.error = IF p = "A" THEN 3 ELSE 4]]
    /\ peer = [p \in Peers |-> TRUE]
    /\ connectState = [p \in Peers |-> "resolved"]
    /\ tr = [p \in Peers |->
               [NoTransport EXCEPT !.created = TRUE, !.open = TRUE,
                                   !.key = p, !.id = p]]
    /\ calls = [p \in Peers |-> NoCalls]
    /\ nOn = 4
    /\ lastOn = [event |-> eventError, threw |-> Proceeds]
    /\ regs = <<[p |-> "A", event |-> eventIncomingSMP, c |-> 1],
                [p |-> "B", event |-> eventIncomingSMP, c |-> 2],
                [p |-> "A", event |-> eventError, c |-> 3],
                [p |-> "B", event |-> eventError, c |-> 4]>>
    /\ discReq = [p \in Peers |-> "no"]
    /\ sess = <<>>
    /\ now = 0

\* sessions in flight at the same time between registered orchestrators
ConcNext ==
    \/ \E p \in Peers, r \in RemoteIds, sync \in BOOLEAN :
           Len(sess) < MaxConcSessions /\ RunSMP(p, r, sync)
    \/ \E i \in 1..MaxConcSessions : InitiatorOpen(i)
    \/ \E i \in 1..MaxConcSessions : DeliverToResponder(i)
    \/ \E i \in 1..MaxConcSessions : DeliverToInitiator(i)
    \/ \E i \in 1..MaxConcSessions : InitiatorPoll(i)
    \/ \E i \in 1..MaxConcSessions : InitiatorTimer(i)
    \/ \E i \in 1..MaxConcSessions : ResponderPoll(i)
    \/ \E i \in 1..MaxConcSessions : ResponderTimer(i)
    \/ Tick

ConcSpec == ConcInit /\ [][ConcNext]_vars

\* a session between registered orchestrators, followed until its timers
\* have fired: runSMP is called while its timer still fits the clock
SessNext ==
    \/ \E p \in Peers, r \in RemoteIds, sync \in BOOLEAN :
           /\ Len(sess) < MaxSoloSessions
           /\ now + timeout[p] <= MaxTime
           /\ RunSMP(p, r, sync)
    \/ \E i \in 1..MaxSoloSessions : InitiatorOpen(i)
    \/ \E i \in 1..MaxSoloSessions : DeliverToResponder(i)
    \/ \E i \in 1..MaxSoloSessions : DeliverToInitiator(i)
    \/ \E i \in 1..MaxSoloSessions : InitiatorPoll(i)
    \/ \E i \in 1..MaxSoloSessions : InitiatorTimer(i)
    \/ \E i \in 1..MaxSoloSessions : ResponderPoll(i)
    \/ \E i \in 1..MaxSoloSessions : ResponderTimer(i)
    \/ Tick

SessSpec == ConcInit /\ [][SessNext]_vars

\* the event loop runs every timer callback that is due and the clock goes
\* on; the transport is free never to open a connection or deliver a frame
FairSessSpec ==
    /\ SessSpec
    /\ WF_vars(Tick)
    /\ \A i \in 1..MaxSoloSessions :
           /\ WF_vars(InitiatorPoll(i))
           /\ WF_vars(InitiatorTimer(i))
           /\ WF_vars(ResponderPoll(i))
           /\ WF_vars(ResponderTimer(i))

\* registration, the event registry and disconnect() as in RegNext, and a
\* session over the repository's transport, which runs the exchange inside
\* runSMP: callbacks are registered again while the inbound wait is pending
RebindNext ==
    \/ RegNext
    \/ \E p \in Peers, r \in RemoteIds :
           /\ Len(sess) < MaxSoloSessions
           /\ RunSMP(p, r, TRUE)
    \/ \E i \in 1..MaxSoloSessions : ResponderPoll(i)
    \/ Tick

RebindSpec == Init /\ [][RebindNext]_vars

(***************************************************************************)
(* Properties.                                                             *)
(***************************************************************************)
Registered(p) == connectState[p] = "resolved"

IsBool(out) == out \in {"true", "false"}

RecognizedEvents ==
    {eventServerConnected, eventServerDisconnected, eventError, eventIncomingSMP}

\* the server confirmed another identity than the one p requested
Mismatch(p) ==
    tr[p].open /\ localPeerID[p] # Undefined /\ tr[p].id # localPeerID[p]

\* the invocations of p's incoming-session callback made for session i
IncomingFor(p, i) ==
    {k \in 1..Len(calls[p].incoming) : calls[p].incoming[k].args[1] = i}

IncomingResult(p, k) == calls[p].incoming[k].args[3]

\* C1: runSMP on an orchestrator whose connectToPeerServer has not succeeded
\* fails with ServerUnconnected, whatever the remote identity (the guard does
\* not read it).
C1_RunSMPUnconnected ==
    \A p \in Peers :
        ~Registered(p) => runSMPThrows(p) = "ServerUnconnected"

\* C2: when an identity was requested and the server confirms another one,
\* the promise of connectToPeerServer is rejected with ServerFault, and is
\* not resolved.
C2_MismatchRejects ==
    \A p \in Peers : Mismatch(p) => connectState[p] = "ServerFault"

C2_Witness ==
    \E p \in Peers : Mismatch(p) /\ connectState[p] = "ServerFault"

\* C3: after connectToPeerServer failed with ServerFault, the id accessor
\* still fails with ServerUnconnected.
C3_IdInaccessibleAfterFault ==
    \A p \in Peers :
        connectState[p] = "ServerFault" =>
            get_id(p) = [ok |-> FALSE, val |-> "ServerUnconnected"]

\* C4: a finished session gives both sides the same boolean: runSMP's return
\* value and the result passed to the responder's incoming-session callback
\* are true when the two secrets are equal and false when they differ.
C4_SameResultBothSides ==
    \A i \in Sids :
        sess[i].rsp # NoPeer =>
            LET same == secret[sess[i].ini] = secret[sess[i].rsp]
            IN  /\ IsBool(sess[i].out) => sess[i].out = BoolStr(same)
                /\ \A k \in IncomingFor(sess[i].rsp, i) :
                       IncomingResult(sess[i].rsp, k) = same

C4_Witness ==
    \E i \in Sids :
        /\ sess[i].rsp # NoPeer
        /\ secret[sess[i].ini] # secret[sess[i].rsp]
        /\ sess[i].out = "false"
        /\ \E k \in IncomingFor(sess[i].rsp, i) :
               IncomingResult(sess[i].rsp, k) = FALSE

\* C5: while no frame has been delivered to the initiator of an outgoing
\* session, runSMP has not resolved with a result; once more than timeout ms
\* have passed since the connection opened it has failed with TimeoutError;
\* and after that failure runSMP can still be called on the orchestrator.
C5_TimeoutWithoutFrames ==
    \A i \in Sids :
        sess[i].iRecv = 0 =>
            /\ ~IsBool(sess[i].out)
            /\ (sess[i].iOpen /\ now > sess[i].iOpenAt + timeout[sess[i].ini])
                   => sess[i].out = "TimeoutError"
            /\ sess[i].out = "TimeoutError"
                   => runSMPThrows(sess[i].ini) = Proceeds

C5_Witness ==
    \E i \in Sids :
        /\ sess[i].iOpen
        /\ sess[i].iRecv = 0
        /\ sess[i].out = "TimeoutError"
        /\ now > sess[i].iOpenAt + timeout[sess[i].ini]

\* C6, as claimed: the incoming-session callback is never invoked on the
\* initiator's orchestrator for that session.
C6_NeverOnInitiator ==
    \A i \in Sids : IncomingFor(sess[i].ini, i) = {}

\* C6, amended: the incoming-session callback is invoked for a session only
\* on that session's responder; it is invoked on the initiator's
\* orchestrator only when that orchestrator is the responder too (runSMP
\* towards its own identity).
C6_OnlyOnResponder ==
    \A i \in Sids : \A p \in Peers :
        IncomingFor(p, i) # {} => p = sess[i].rsp

C6_Witness ==
    \E i \in Sids :
        /\ sess[i].rsp # sess[i].ini
        /\ IsBool(sess[i].out)
        /\ IncomingFor(sess[i].rsp, i) # {}
        /\ IncomingFor(sess[i].ini, i) = {}

\* C7: a disconnect() made after registration, with a server-disconnected
\* callback registered, leads to an invocation of the callback: within the
\* call, or when the transport raises its 'disconnected' notification.
C7_DisconnectInvokesCallback ==
    \A p \in Peers : (discReq[p] = "owed") ~> (discReq[p] = "served")

C7_Witness ==
    \E p \in Peers :
        /\ Registered(p)
        /\ discReq[p] = "served"
        /\ ~tr[p].discPending
        /\ Len(calls[p].disconnected) > 0

\* C8: the server-disconnected callback has not been invoked while
\* connectToPeerServer has not succeeded.
C8_NoDisconnectedBeforeRegistered ==
    \A p \in Peers : ~Registered(p) => calls[p].disconnected = <<>>

\* C9: before registration has succeeded, the id accessor and disconnect()
\* both fail with ServerUnconnected.
C9_UnconnectedBeforeRegistered ==
    \A p \in Peers :
        ~Registered(p) =>
            /\ get_id(p) = [ok |-> FALSE, val |-> "ServerUnconnected"]
            /\ disconnectThrows(p) = "ServerUnconnected"

\* C10: on() with an event name that is not one of the four recognized ones
\* fails with EventUnsupported and leaves the four callback bindings unchanged.
C10_UnsupportedEvent ==
    [][(nOn' # nOn /\ lastOn'.event \notin RecognizedEvents)
          => (lastOn'.threw = "EventUnsupported" /\ cb' = cb)]_vars

\* the callback the latest on(kind, ...) call of p registered, NoCb if none
LastRegistered(p, kind) ==
    LET ks == {k \in 1..Len(regs) : regs[k].p = p /\ regs[k].event = kind}
    IN  IF ks = {} THEN NoCb
        ELSE regs[CHOOSE k \in ks : \A l \in ks : l <= k].c

\* C11: one callback per event kind: whenever an event of a kind invokes a
\* callback, it invokes exactly one, the one the latest on() call for that
\* kind registered (none when none was registered); so a callback that a
\* later registration replaced is not invoked after the replacement.
C11_LatestCallbackOnly ==
    /\ [][\A p \in Peers : \A kind \in RecognizedEvents :
             calls'[p][kind] # calls[p][kind] =>
                 /\ LastRegistered(p, kind) # NoCb
                 /\ Len(calls'[p][kind]) = Len(calls[p][kind]) + 1
                 /\ SubSeq(calls'[p][kind], 1, Len(calls[p][kind])) = calls[p][kind]
                 /\ calls'[p][kind][Len(calls'[p][kind])].cb = LastRegistered(p, kind)]_vars
    /\ [](\A p \in Peers : \A kind \in RecognizedEvents :
             \A k, l \in 1..Len(calls[p][kind]) :
                 k < l => calls[p][kind][k].cb <= calls[p][kind][l].cb)

\* the incoming-session callback was registered and then replaced, and the
\* inbound session that completed afterwards invoked the new one only
C11_Witness ==
    \E p \in Peers : \E i \in Sids :
        /\ sess[i].rsp = p
        /\ Cardinality({k \in 1..Len(regs) :
                           regs[k].p = p /\ regs[k].event = eventIncomingSMP}) = 2
        /\ Len(calls[p].incoming) = 1
        /\ calls[p].incoming[1].cb = LastRegistered(p, eventIncomingSMP)
        /\ calls[p].incoming[1].cb = regs[Len(regs)].c

\* C12: when connectToPeerServer succeeds with a server-connected callback
\* registered, the step that resolves the promise has invoked that callback,
\* once; it is never invoked a second time; and from then on the id accessor
\* returns the identity the server confirmed.
C12_ConnectedOnceThenId ==
    /\ [][\A p \in Peers :
             (~Registered(p) /\ Registered(p)' /\ cb[p].connected # NoCb) =>
                 /\ Len(calls'[p].connected) = 1
                 /\ calls'[p].connected[1].cb = cb[p].connected]_vars
    /\ [](\A p \in Peers :
             Registered(p) =>
                 /\ Len(calls[p].connected) <= 1
                 /\ get_id(p) = [ok |-> TRUE, val |-> tr[p].id]
                 /\ tr[p].id \in ConfirmedIds(p)
                 /\ localPeerID[p] # Undefined => tr[p].id = localPeerID[p])

C12_Witness ==
    \E p \in Peers :
        /\ Registered(p)
        /\ Len(calls[p].connected) = 1
        /\ cb[p].connected # NoCb
        /\ get_id(p) = [ok |-> TRUE, val |-> AssignedKey(p)]

\* C13: an inbound session is completed when its wait ended with the engine
\* finished.  For every completed inbound session the incoming-session
\* callback bound on the responder has been invoked exactly once, with the
\* identity of the peer that opened the connection and the engine's result;
\* for a session whose engine is unfinished, or whose wait has not ended that
\* way, it has not been invoked.
C13_IncomingOncePerCompleted ==
    \A i \in Sids :
        sess[i].rsp # NoPeer =>
            LET s == sess[i]
                inv == IncomingFor(s.rsp, i)
            IN  /\ Cardinality(inv) <= 1
                /\ (s.rW.settled = "finished" /\ cb[s.rsp].incoming # NoCb)
                       => Cardinality(inv) = 1
                /\ inv # {} => isFinished(s.rEng) /\ s.rW.settled = "finished"
                /\ \A k \in inv :
                       /\ calls[s.rsp].incoming[k].cb = cb[s.rsp].incoming
                       /\ calls[s.rsp].incoming[k].args[2] = get_id(s.ini).val
                       /\ IncomingResult(s.rsp, k) = getResult(s.rEng)

\* two inbound sessions completed on the same orchestrator, one invocation each
C13_Witness ==
    \E i, j \in Sids :
        /\ i # j
        /\ sess[i].rsp = sess[j].rsp
        /\ sess[i].rsp # NoPeer
        /\ sess[i].rW.settled = "finished"
        /\ sess[j].rW.settled = "finished"
        /\ Cardinality(IncomingFor(sess[i].rsp, i)) = 1
        /\ Cardinality(IncomingFor(sess[j].rsp, j)) = 1

\* C14: when an inbound session's timer fires before its wait saw the engine
\* finished, nothing the caller can see happens: in that step no callback is
\* invoked (the error callback included), no frame is sent, no session is
\* started, every other session and the orchestrator's registration are left
\* as they were; the incoming-session callback is never invoked for that
\* session afterwards, even once its engine has finished; and runSMP still
\* passes its guard on that orchestrator.
C14_InboundTimeoutSilent ==
    /\ [][\A i \in Sids :
             (sess[i].rW.settled = "pending" /\ sess'[i].rW.settled = "timeout") =>
                 /\ calls' = calls
                 /\ <<cb, peer, connectState, tr>>' = <<cb, peer, connectState, tr>>
                 /\ sess' = [sess EXCEPT ![i].rW = sess'[i].rW]]_vars
    /\ [](\A i \in Sids :
             (sess[i].rsp # NoPeer /\ sess[i].rW.settled = "timeout") =>
                 /\ IncomingFor(sess[i].rsp, i) = {}
                 /\ calls[sess[i].rsp].error = <<>>
                 /\ runSMPThrows(sess[i].rsp) = Proceeds)

\* an inbound session timed out and its engine finished later, without an
\* invocation; another inbound session on the same orchestrator completed
C14_Witness ==
    \E i, j \in Sids :
        /\ i # j
        /\ sess[i].rsp # NoPeer
        /\ sess[i].rsp = sess[j].rsp
        /\ sess[i].rW.settled = "timeout"
        /\ isFinished(sess[i].rEng)
        /\ IncomingFor(sess[i].rsp, i) = {}
        /\ sess[j].rW.settled = "finished"
        /\ IncomingFor(sess[j].rsp, j) # {}

\* C15: runSMP towards an identity no peer is registered under fails: the
\* call never resolves with a boolean, no session is set up and no frame sent.
C15_UnknownRemoteFails ==
    \A i \in Sids :
        (\A q \in Peers : tr[q].key # sess[i].remote) =>
            /\ ~IsBool(sess[i].out)
            /\ sess[i].out = "Error"
            /\ sess[i].rsp = NoPeer
            /\ sess[i].iSent = <<>>

C15_Witness ==
    \E i \in Sids :
        /\ sess[i].remote = "C"
        /\ Registered(sess[i].ini)
        /\ sess[i].out = "Error"

\* C16: once connectToPeerServer has succeeded, no step changes what the id
\* accessor returns: not a session starting, running or ending, and not
\* disconnect() or the notification it causes.
C16_IdStable ==
    [][\A p \in Peers :
          Registered(p) => (Registered(p)' /\ get_id(p)' = get_id(p))]_vars

\* a registered orchestrator with a session in flight and a disconnect() made
C16_Witness ==
    \E p \in Peers : \E i \in Sids :
        /\ Registered(p)
        /\ tr[p].discPending
        /\ sess[i].ini = p
        /\ sess[i].iOpen
        /\ sess[i].out = "pending"
        /\ get_id(p) = [ok |-> TRUE, val |-> AssignedKey(p)]

\* the waits of the sessions: the initiator's and the responder's
Waiters == {sess[i].iW : i \in Sids} \cup {sess[i].rW : i \in Sids}

\* C17: when the engine of a wait is finished before the timeout has
\* elapsed, the timer of that wait is cancelled and does not fire: a timer
\* whose engine is finished while its deadline lies ahead is no longer armed
\* when the clock reaches the deadline, and no step settles with TimeoutError
\* a wait whose engine is finished (nor fails the runSMP call with it).
C17_FinishedBeforeTimeout ==
    [][\A i \in Sids :
          /\ (/\ sess[i].iW.timer # NoTimer
              /\ now < sess[i].iW.timer
              /\ isFinished(sess[i].iEng))
                 => (sess'[i].iW.timer = NoTimer \/ now' < sess[i].iW.timer)
          /\ (/\ sess[i].rW.timer # NoTimer
              /\ now < sess[i].rW.timer
              /\ isFinished(sess[i].rEng))
                 => (sess'[i].rW.timer = NoTimer \/ now' < sess[i].rW.timer)
          /\ (sess[i].iW.timer # NoTimer /\ isFinished(sess[i].iEng))
                 => /\ sess'[i].iW.settled # "timeout"
                    /\ sess'[i].out # NewError("TimeoutError")
          /\ (sess[i].rW.timer # NoTimer /\ isFinished(sess[i].rEng))
                 => sess'[i].rW.settled # "timeout"]_vars

\* C18: when a wait's timer fires before the engine was seen finished, the
\* poll loop is cancelled: once the race has settled with TimeoutError the
\* loop has no wake-up pending.
C18_PollCancelledOnTimeout ==
    \A w \in Waiters : w.settled = "timeout" => w.poll = NoTimer

\* C19: with several sessions in flight, a session's engine is advanced only
\* by the frame at the head of that session's own connection (so in arrival
\* order), and a step that delivers a frame on one connection leaves every
\* other session, its engine included, as it was.
C19_OwnFramesInOrder ==
    [][\A i \in Sids :
          /\ (sess[i].rOpen /\ sess'[i].rEng # sess[i].rEng) =>
                 /\ sess[i].toR # <<>>
                 /\ sess'[i].rEng = createConnDataHandler(sess[i].rEng,
                                                          Head(sess[i].toR)).sm
                 /\ sess'[i].rRecv = sess[i].rRecv + 1
          /\ (sess[i].iOpen /\ sess'[i].iEng # sess[i].iEng) =>
                 /\ sess[i].toI # <<>>
                 /\ sess'[i].iEng = createConnDataHandler(sess[i].iEng,
                                                          Head(sess[i].toI)).sm
                 /\ sess'[i].iRecv = sess[i].iRecv + 1
          /\ sess'[i] # sess[i] =>
                 \A j \in Sids \ {i} : sess'[j] = sess[j]]_vars

\* one orchestrator is the initiator of a session and the responder of
\* another, both under way, with engines in different states
C19_Witness ==
    \E i, j \in Sids :
        /\ i # j
        /\ sess[i].ini = sess[j].rsp
        /\ sess[i].iRecv >= 1
        /\ sess[j].rRecv >= 1
        /\ ~isFinished(sess[i].iEng)
        /\ ~isFinished(sess[j].rEng)
        /\ sess[i].rEng.state # sess[j].rEng.state

\* C20: in an outgoing session the initiator has sent nothing while its
\* connection is not open; the first frame it sends is the engine's first
\* message, the one a new engine gives when transited with no input; and the
\* responder has sent no frame on a connection it has received none on.
C20_FirstFrameAfterOpen ==
    \A i \in Sids :
        /\ ~sess[i].iOpen => sess[i].iSent = <<>>
        /\ sess[i].iSent # <<>> =>
               sess[i].iSent[1] =
                   serialize(transit(NewSMPStateMachine(secret[sess[i].ini]),
                                     Null).reply)
        /\ sess[i].rRecv = 0 => sess[i].rSent = <<>>

C20_Witness ==
    \E i \in Sids :
        /\ sess[i].iOpen
        /\ Len(sess[i].iSent) >= 1
        /\ sess[i].rRecv >= 1
        /\ Len(sess[i].rSent) >= 1

\* the frames the engine's transit makes the bridge send for one inbound frame
ReplyFrames(sm, data) ==
    LET reply == transit(sm, deserialize(data)).reply
    IN  IF reply = Null THEN <<>> ELSE <<serialize(reply)>>

\* C21: for each inbound frame the Frame Bridge sends at most one frame, on
\* the connection the inbound frame arrived on: the encoded reply when the
\* engine's transit returns one, nothing when it returns null; no other
\* connection gets a frame in that step.
C21_OneReplyPerFrame ==
    /\ [][\A i \in Sids :
             /\ sess'[i].rRecv # sess[i].rRecv =>
                    /\ sess'[i].rSent =
                           sess[i].rSent \o ReplyFrames(sess[i].rEng, Head(sess[i].toR))
                    /\ sess'[i].toI =
                           sess[i].toI \o ReplyFrames(sess[i].rEng, Head(sess[i].toR))
                    /\ \A j \in Sids \ {i} : sess'[j] = sess[j]
             /\ sess'[i].iRecv # sess[i].iRecv =>
                    /\ sess'[i].iSent =
                           sess[i].iSent \o ReplyFrames(sess[i].iEng, Head(sess[i].toI))
                    /\ sess'[i].toR =
                           sess[i].toR \o ReplyFrames(sess[i].iEng, Head(sess[i].toI))
                    /\ \A j \in Sids \ {i} : sess'[j] = sess[j]]_vars
    /\ [](\A i \in Sids :
             /\ Len(sess[i].rSent) <= sess[i].rRecv
             /\ Len(sess[i].iSent) <= sess[i].iRecv + 1)

\* both cases happened on one connection: a frame answered with one frame,
\* and a frame (the last message) answered with none
C21_Witness ==
    \E i \in Sids :
        /\ sess[i].iRecv = 2
        /\ Len(sess[i].iSent) = 2
        /\ sess[i].rRecv = 2
        /\ Len(sess[i].rSent) = 2

\* C22: once the timeout of an inbound session has fired, the orchestrator
\* neither advances that session's engine nor sends a frame on its
\* connection, whatever frames arrive later.
C22_NoActionAfterTimeout ==
    [][\A i \in Sids :
          sess[i].rW.settled = "timeout" =>
              /\ sess'[i].rEng = sess[i].rEng
              /\ sess'[i].rSent = sess[i].rSent
              /\ sess'[i].rRecv = sess[i].rRecv]_vars

\* C23: an error notification the service raises while the orchestrator is
\* registering is forwarded to the bound error callback, with the error,
\* and to nothing else: it leaves the registration promise, the stored
\* transport and the transport itself untouched, so the promise is resolved
\* as soon as the service has confirmed the identity (one that does not
\* contradict the requested one).
C23_ErrorForwardedNotFatal ==
    /\ [][\A p \in Peers :
             calls'[p].error # calls[p].error =>
                 /\ cb[p].error # NoCb
                 /\ calls'[p].error =
                        Append(calls[p].error,
                               [cb |-> cb[p].error, args |-> <<"ERROR!">>])
                 /\ calls'[p].connected = calls[p].connected
                 /\ calls'[p].disconnected = calls[p].disconnected
                 /\ connectState' = connectState
                 /\ peer' = peer
                 /\ tr' = tr]_vars
    /\ [](\A p \in Peers : tr[p].open /\ ~Mismatch(p) => Registered(p))

\* a registration that resolved after the error callback was called during it
C23_Witness ==
    \E p \in Peers :
        /\ Registered(p)
        /\ Len(calls[p].error) >= 1
        /\ calls[p].error[1].args = <<"ERROR!">>

\* C24: an orchestrator constructed without a local identity never has its
\* connectToPeerServer fail with ServerFault, whichever identity the service
\* confirms; once the service has confirmed one, the promise is resolved
\* and the id accessor returns that identity.
C24_NoFaultWithoutRequestedId ==
    \A p \in Peers :
        localPeerID[p] = Undefined =>
            /\ connectState[p] # NewError("ServerFault")
            /\ tr[p].open =>
                   /\ Registered(p)
                   /\ get_id(p) = [ok |-> TRUE, val |-> tr[p].id]

\* no identity requested, and the service confirmed one that differs from
\* the one it created the transport under
C24_Witness ==
    /\ localPeerID["A"] = Undefined
    /\ Registered("A")
    /\ tr["A"].id = WrongID(localPeerID["A"])
    /\ get_id("A").val = tr["A"].id

\* C25: a wait is settled with TimeoutError only when its engine is not
\* finished at the moment the timer fires: no timer fires on an engine that
\* finished since the last poll.
C25_TimeoutOnlyIfUnfinished ==
    [][\A i \in Sids :
          /\ (sess[i].iW.settled = "pending" /\ sess'[i].iW.settled = "timeout")
                 => ~isFinished(sess[i].iEng)
          /\ (sess[i].rW.settled = "pending" /\ sess'[i].rW.settled = "timeout")
                 => ~isFinished(sess[i].rEng)]_vars

\* C26: the server-connected callback has no invocation on an orchestrator
\* whose connectToPeerServer failed with ServerFault.
C26_NoConnectedOnFault ==
    \A p \in Peers :
        connectState[p] = NewError("ServerFault") => calls[p].connected = <<>>

\* C27: every runSMP call made on a registered orchestrator is eventually
\* settled, with a boolean or a failure, whatever the remote side and the
\* transport do, provided timers and wake-ups that are due eventually run;
\* it is settled once: an outcome that was delivered is never changed, also
\* when frames arrive afterwards.
C27_SettlesExactlyOnce ==
    /\ \A i \in 1..MaxSoloSessions :
           (i \in Sids /\ sess[i].out = "pending")
               ~> (i \in Sids /\ sess[i].out # "pending")
    /\ [][\A i \in Sids :
             sess[i].out # "pending" => sess'[i].out = sess[i].out]_vars
    /\ [](\A i \in Sids :
             \/ sess[i].out = "pending"
             \/ IsBool(sess[i].out)
             \/ sess[i].out \in {NewError("TimeoutError"), "Error"})

\* a call that failed with TimeoutError whose engine finished on frames that
\* arrived after the outcome was delivered
C27_Witness ==
    \E i \in Sids :
        /\ Registered(sess[i].ini)
        /\ sess[i].out = NewError("TimeoutError")
        /\ isFinished(sess[i].iEng)
        /\ sess[i].iRecv = 2

\* C28: the Frame Bridge is installed on a connection before a frame can
\* arrive on it: whenever a frame is on its way to a side, that side's data
\* handler is installed (the initiator's since before its first message was
\* sent, the responder's since its connection opened), so no frame is
\* dropped: every frame one side sent was consumed by the other side's
\* handler or is still on its way.
C28_HandlerBeforeFrames ==
    \A i \in Sids :
        /\ sess[i].toR # <<>> => sess[i].rData /\ sess[i].rOpen
        /\ sess[i].toI # <<>> => sess[i].iData /\ sess[i].iOpen
        /\ sess[i].iSent # <<>> => sess[i].iData /\ sess[i].rData
        /\ sess[i].rRecv + Len(sess[i].toR) = Len(sess[i].iSent)
        /\ sess[i].iRecv + Len(sess[i].toI) = Len(sess[i].rSent)

\* a connection on which both sides have received every frame of the exchange
C28_Witness ==
    \E i \in Sids :
        /\ sess[i].rRecv = 2
        /\ sess[i].iRecv = 2
        /\ sess[i].toR = <<>>
        /\ sess[i].toI = <<>>
        /\ isFinished(sess[i].iEng)
        /\ isFinished(sess[i].rEng)

====
